---- MODULE Spec2Model ----
(***************************************************************************)
(* A model of source/appModules/soffice.py (NVDA app module for            *)
(* OpenOffice / LibreOffice):                                              *)
(*   - gridCoordStringToNumbers and the JAB_OOTableCell row / column       *)
(*     number properties built on it,                                      *)
(*   - SymphonyTextInfo._getFormatFieldAndOffsets,                         *)
(*   - the selection announcement of SymphonyTable / SymphonyTableCell.    *)
(*                                                                         *)
(* A Python str is a sequence of one-character strings, so that slicing,   *)
(* str.isdigit, str.upper, ord, int and float are computed character by    *)
(* character.  The two characters outside ASCII are written by their code  *)
(* point ("U+00B2", "U+00DF").  Python's None is the one-element sequence  *)
(* None below, whose element is not a character.                           *)
(***************************************************************************)
EXTENDS Integers, Sequences, FiniteSets, TLC

VARIABLES
    coordString,     \* argument of the last gridCoordStringToNumbers call
    coordResult,     \* what that call returned or raised
    name,            \* JAB_OOTableCell: the name the Java Access Bridge gives
    rowNumber,       \* outcome of the last rowNumber query on that cell
    columnNumber,    \* outcome of the last columnNumber query on that cell
    formatInput,     \* SymphonyTextInfo: what a _getFormatFieldAndOffsets call reads
    formatResult,    \* what that call returned or raised
    last_selection,  \* SymphonyTable.last_selection (a class attribute)
    selectedCells,   \* names of the cells IAccessibleTable2 reports selected
    hasTable2,       \* whether the table has an IAccessibleTable2Object
    spoken,          \* the (first, last) pairs of the messages spoken so far
    lastEvent,       \* the event handled last
    resetPending,    \* history: event_selection ran and no announcement since
                     \* has found more than one selected cell
    resetSinceSpoken \* history: event_selection ran since the last message

coordVars == <<coordString, coordResult>>
cellVars == <<name, rowNumber, columnNumber>>
formatVars == <<formatInput, formatResult>>
otherVars == <<coordString, coordResult, name, rowNumber, columnNumber,
               formatInput, formatResult>>
tableVars == <<last_selection, selectedCells, hasTable2, spoken, lastEvent,
               resetPending, resetSinceSpoken>>
vars == <<coordString, coordResult, name, rowNumber, columnNumber,
          formatInput, formatResult, last_selection, selectedCells,
          hasTable2, spoken, lastEvent, resetPending, resetSinceSpoken>>

(***************************************************************************)
(* Bounds.                                                                 *)
(***************************************************************************)
\* longest coordinate string handed to gridCoordStringToNumbers
MaxLen == 3
\* longest coordinate text embedded in a JAB cell name
MaxCellLen == 3
\* most attributes in one attribute string
MaxAttribs == 2
\* longest value of a numeric attribute, when every string is tried
MaxNumLen == 3
\* most cells selected at once
MaxSelected == 3
\* most messages spoken in one run
MaxSpoken == 2

(***************************************************************************)
(* Python values.                                                          *)
(***************************************************************************)
None == <<"None">>

UpperLetters == {"A", "B", "Z"}
LowerLetters == {"a", "b", "z"}
\* characters of Unicode category Nd within the modelled alphabet
DecimalDigits == {"0", "1", "2", "5", "9"}
\* str.isdigit() is true of these too (Numeric_Type=Digit), int() rejects them
SuperscriptTwo == "U+00B2"
OtherDigits == {SuperscriptTwo}
\* no letter, no digit
Punctuation == {" ", "$", "@"}
\* str.upper() of this letter is two characters long
SharpS == "U+00DF"
Chars == UpperLetters \cup LowerLetters \cup DecimalDigits \cup OtherDigits
            \cup Punctuation \cup {SharpS}

StringsOver(alphabet, n) == UNION {[1..k -> alphabet] : k \in 0..n}

RECURSIVE Pow(_, _)
Pow(b, e) == IF e = 0 THEN 1 ELSE b * Pow(b, e - 1)

\* the built-in ord(), on the one-character strings of the model
Ord(ch) ==
    CASE ch = " " -> 32 [] ch = "$" -> 36 [] ch = "@" -> 64
      [] ch = "0" -> 48 [] ch = "1" -> 49 [] ch = "2" -> 50 [] ch = "5" -> 53
      [] ch = "9" -> 57
      [] ch = "A" -> 65 [] ch = "B" -> 66 [] ch = "Z" -> 90
      [] ch = "a" -> 97 [] ch = "b" -> 98 [] ch = "z" -> 122
      [] ch = SuperscriptTwo -> 178 [] ch = SharpS -> 223

\* str.isdigit() of one character
IsDigit(ch) == ch \in DecimalDigits \cup OtherDigits

\* str.upper() of one character: a string, not always of length 1
Upper(ch) ==
    CASE ch = "a" -> <<"A">> [] ch = "b" -> <<"B">> [] ch = "z" -> <<"Z">>
      [] ch = SharpS -> <<"S", "S">>
      [] OTHER -> <<ch>>

\* whether int(s) accepts s, a string of isdigit() characters
IntAccepts(s) == Len(s) > 0 /\ \A i \in 1..Len(s) : s[i] \in DecimalDigits

\* int(s) on a string of decimal digits
RECURSIVE IntOfDigits(_)
IntOfDigits(s) ==
    IF Len(s) = 0 THEN 0
    ELSE (Ord(s[Len(s)]) - Ord("0")) + 10 * IntOfDigits(SubSeq(s, 1, Len(s) - 1))

(***************************************************************************)
(* gridCoordStringToNumbers                                                *)
(***************************************************************************)
Returned(r, c) == [kind |-> "returned", row |-> r, col |-> c]
Raised(e) == [kind |-> e, row |-> 0, col |-> 0]
NotCalled == [kind |-> "notCalled", row |-> 0, col |-> 0]

\* the guard of line 22
BadCoordString(s) ==
    \/ s = None
    \/ Len(s) = 0
    \/ Len(s) < 2
    \/ \E i \in 1..Len(s) : s[i] = " "
    \/ IsDigit(s[1])
    \/ ~IsDigit(s[Len(s)])

\* The first loop: the number of characters before the trailing run of
\* isdigit() characters; -1 stands for None (no other character found).
CoordStringRowStartIndex(s) ==
    LET others == {i \in 1..Len(s) : ~IsDigit(s[i])}
    IN  IF others = {} THEN -1
        ELSE CHOOSE i \in others : \A j \in others : j <= i

\* one term of the second loop, for a character whose upper() is one character
LetterValueNoUpper(ch) == Ord(ch) - Ord("A") + 1
LetterValue(ch) == Ord(Upper(ch)[1]) - Ord("A") + 1

\* the second loop, from position index of reversed(s) on
RECURSIVE ColNumFrom(_, _)
ColNumFrom(s, index) ==
    IF index >= Len(s) THEN 0
    ELSE LetterValue(s[Len(s) - index]) * Pow(26, index)
            + ColNumFrom(s, index + 1)

gridCoordStringToNumbers(s) ==
    IF BadCoordString(s) THEN Raised("ValueError")
    ELSE LET start == CoordStringRowStartIndex(s)
             rowStr == IF start = -1 THEN s ELSE SubSeq(s, start + 1, Len(s))
             colStr == IF start = -1 THEN s ELSE SubSeq(s, 1, start)
         IN  IF ~IntAccepts(rowStr) THEN Raised("ValueError")
             ELSE IF \E i \in 1..Len(colStr) : Len(Upper(colStr[i])) # 1
                  THEN Raised("TypeError")
             ELSE Returned(IntOfDigits(rowStr), ColNumFrom(colStr, 0))

CoordStrings == {None} \cup StringsOver(Chars, MaxLen)

\* The call: coordString is the argument the caller holds.
CallGridCoordStringToNumbers ==
    /\ coordResult = NotCalled
    /\ coordResult' = gridCoordStringToNumbers(coordString)
    /\ UNCHANGED <<coordString, cellVars, formatVars, tableVars>>

(***************************************************************************)
(* JAB_OOTableCell                                                         *)
(***************************************************************************)
QueryReturned(v) == [kind |-> "returned", val |-> v]
QueryRaised(e) == [kind |-> e, val |-> 0]
NotQueried == [kind |-> "notQueried", val |-> 0]

StartsWith(s, prefix) ==
    Len(s) >= Len(prefix) /\ SubSeq(s, 1, Len(prefix)) = prefix

CellPrefix == <<"C", "e", "l", "l">>

\* n[5:-1] of a name that starts with 'Cell' and whose n[-2] is a digit
get_cellCoordsText(n) ==
    IF n # None /\ Len(n) > 0 /\ StartsWith(n, CellPrefix)
          /\ IsDigit(n[Len(n) - 1])
    THEN SubSeq(n, 6, Len(n) - 1)
    ELSE None

get_rowNumber(n) ==
    LET r == gridCoordStringToNumbers(get_cellCoordsText(n))
    IN  IF r.kind = "returned" THEN QueryReturned(r.row)
        ELSE IF r.kind = "ValueError" THEN QueryReturned(0)
        ELSE QueryRaised(r.kind)

get_columnNumber(n) ==
    LET r == gridCoordStringToNumbers(get_cellCoordsText(n))
    IN  IF r.kind = "returned" THEN QueryReturned(r.col)
        ELSE IF r.kind = "ValueError" THEN QueryReturned(0)
        ELSE QueryRaised(r.kind)

\* characters of the names the Java Access Bridge hands over
CellChars == {"A", "b", "0", "1", " ", SharpS}
\* names that do not start with 'Cell'
PlainNames == {<<>>, <<"A", "1">>, <<"C", "e", "l", "1", "1">>}
\* 'Cell', then the separator, a coordinate text and the closing character
JabNames ==
    {None} \cup PlainNames
        \cup {CellPrefix \o t : t \in StringsOver(CellChars, MaxCellLen + 2)}

QueryRowNumber ==
    /\ rowNumber = NotQueried
    /\ rowNumber' = get_rowNumber(name)
    /\ UNCHANGED <<coordVars, name, columnNumber, formatVars, tableVars>>

QueryColumnNumber ==
    /\ columnNumber = NotQueried
    /\ columnNumber' = get_columnNumber(name)
    /\ UNCHANGED <<coordVars, name, rowNumber, formatVars, tableVars>>

(***************************************************************************)
(* SymphonyTextInfo._getFormatFieldAndOffsets                              *)
(*                                                                         *)
(* The attribute string is modelled after IAccessibleHandler.              *)
(* splitIA2Attribs: a mapping from attribute names to values, a value      *)
(* being a str or (Numbering) a dict of sub-attributes.  The string is     *)
(* empty exactly when the mapping is.                                      *)
(***************************************************************************)
\* The values a FormatField holds.  Every value has the same fields:
\*   str:  s the string                 bool: b the boolean
\*   RGB:  s the string it was parsed from
\*   dict: s the 'NumberingPrefix' entry and s2 the 'BulletChar' entry (None
\*         when the key is missing), b whether the dict has other entries
StrVal(str) == [t |-> "str", s |-> str, b |-> FALSE, s2 |-> <<>>]
BoolVal(bool) == [t |-> "bool", s |-> <<>>, b |-> bool, s2 |-> <<>>]
NoneVal == [t |-> "None", s |-> <<>>, b |-> FALSE, s2 |-> <<>>]
RGBVal(str) == [t |-> "RGB", s |-> str, b |-> FALSE, s2 |-> <<>>]
DictVal(prefix, bullet, others) ==
    [t |-> "dict", s |-> prefix, b |-> others, s2 |-> bullet]

\* colors.RGB.fromString
RGBfromString(str) == RGBVal(str)

\* textInfos.FormatField(): a dict
EmptyField == [k \in {} |-> NoneVal]
\* formatField[k] = v
Put(f, k, v) == [x \in DOMAIN f \cup {k} |-> IF x = k THEN v ELSE f[x]]
\* formatField.pop(k)
Pop(f, k) == [x \in DOMAIN f \ {k} |-> f[x]]

IsMinus(str) == Len(str) > 0 /\ str[1] = "-"
Unsigned(str) == IF IsMinus(str) THEN Tail(str) ELSE str
NotDot(ch) == ch # "."

\* int(str), over the characters of NumChars: an optional '-', then digits
PyIntAccepts(str) == IntAccepts(Unsigned(str))
PyInt(str) ==
    IF IsMinus(str) THEN 0 - IntOfDigits(Tail(str)) ELSE IntOfDigits(str)

\* float(str), over the characters of NumChars: an optional '-', then
\* digits with at most one '.', and at least one digit
PyFloatAccepts(str) ==
    LET body == Unsigned(str)
        dots == {i \in 1..Len(body) : body[i] = "."}
    IN  /\ Cardinality(dots) <= 1
        /\ Len(body) > Cardinality(dots)
        /\ \A i \in 1..Len(body) : body[i] \in DecimalDigits \cup {"."}

\* float(str) > n, for an integer n >= 0
PyFloatGreater(str, n) ==
    LET body == Unsigned(str)
        dots == {i \in 1..Len(body) : body[i] = "."}
        scale == IF dots = {} THEN 0
                 ELSE Len(body) - (CHOOSE i \in dots : TRUE)
        mantissa == IntOfDigits(SelectSeq(body, NotDot))
    IN  ~IsMinus(str) /\ mantissa > n * Pow(10, scale)

\* lines 100-110
TextPositionRaises(f) ==
    "CharEscapement" \in DOMAIN f /\ ~PyIntAccepts(f["CharEscapement"].s)

DeriveTextPosition(f) ==
    IF "CharEscapement" \notin DOMAIN f THEN f
    ELSE LET escapement == PyInt(f["CharEscapement"].s)
             textPos == IF escapement < 0 THEN <<"s", "u", "b">>
                        ELSE IF escapement > 0
                             THEN <<"s", "u", "p", "e", "r">>
                        ELSE <<"b", "a", "s", "e", "l", "i", "n", "e">>
         IN  Put(f, "text-position", StrVal(textPos))

\* lines 111-114
DeriveFontName(f) ==
    IF "CharFontName" \notin DOMAIN f THEN f
    ELSE Put(f, "font-name", f["CharFontName"])

\* lines 115-118: "%spt" % value never fails
DeriveFontSize(f) ==
    IF "CharHeight" \notin DOMAIN f THEN f
    ELSE Put(f, "font-size", StrVal(f["CharHeight"].s \o <<"p", "t">>))

\* lines 119-122
DeriveItalic(f) ==
    IF "CharPosture" \notin DOMAIN f THEN f
    ELSE Put(f, "italic", BoolVal(f["CharPosture"] = StrVal(<<"2">>)))

\* lines 123-126
DeriveStrikethrough(f) ==
    IF "CharStrikeout" \notin DOMAIN f THEN f
    ELSE Put(f, "strikethrough", BoolVal(f["CharStrikeout"] = StrVal(<<"1">>)))

\* lines 127-135
DeriveUnderlineBoth(f) ==
    IF "CharUnderline" \notin DOMAIN f THEN f
    ELSE LET underline == f["CharUnderline"]
         IN  IF underline = StrVal(<<"1", "0">>)
             THEN Put(Put(f, "invalid-spelling", BoolVal(TRUE)),
                      "underline", BoolVal(TRUE))
             ELSE Put(f, "underline", BoolVal(underline # StrVal(<<"0">>)))

DeriveUnderline(f) ==
    IF "CharUnderline" \notin DOMAIN f THEN f
    ELSE LET underline == f["CharUnderline"]
         IN  IF underline = StrVal(<<"1", "0">>)
             THEN Put(f, "invalid-spelling", BoolVal(TRUE))
             ELSE Put(f, "underline", BoolVal(underline # StrVal(<<"0">>)))

\* lines 136-139
BoldRaises(f) ==
    "CharWeight" \in DOMAIN f /\ ~PyFloatAccepts(f["CharWeight"].s)

DeriveBoldAtLeast(f) ==
    IF "CharWeight" \notin DOMAIN f THEN f
    ELSE Put(f, "bold", BoolVal(PyFloatGreater(f["CharWeight"].s, 99)))

DeriveBold(f) ==
    IF "CharWeight" \notin DOMAIN f THEN f
    ELSE Put(f, "bold", BoolVal(PyFloatGreater(f["CharWeight"].s, 100)))

\* lines 140-145
DeriveColor(f) ==
    IF "CharColor" \notin DOMAIN f THEN f
    ELSE LET color == f["CharColor"]
             rest == Pop(f, "CharColor")
         IN  IF color.s # <<>> THEN Put(rest, "color", RGBfromString(color.s))
             ELSE rest

\* lines 146-151
DeriveBackgroundColor(f) ==
    IF "CharBackColor" \notin DOMAIN f THEN f
    ELSE LET backgroundColor == f["CharBackColor"]
             rest == Pop(f, "CharBackColor")
         IN  IF backgroundColor.s # <<>>
             THEN Put(rest, "background-color",
                      RGBfromString(backgroundColor.s))
             ELSE rest

\* lines 153-158: hyperlinkIndex(offset) raises COMError, is -1, or is not
DeriveLink(f, in) ==
    IF in.hyperlink = "link" THEN Put(f, "link", BoolVal(TRUE)) ELSE f

\* "if x:" for a str or a dict
Truthy(v) ==
    CASE v.t = "str" -> v.s # <<>>
      [] v.t = "dict" -> v.s # None \/ v.s2 # None \/ v.b
      [] OTHER -> FALSE

\* lines 160-164: a str has no .get
LinePrefixRaises(f, in) ==
    /\ in.offset = 0
    /\ "Numbering" \in DOMAIN f
    /\ Truthy(f["Numbering"])
    /\ f["Numbering"].t # "dict"

DeriveLinePrefix(f, in) ==
    IF in.offset = 0 /\ "Numbering" \in DOMAIN f /\ Truthy(f["Numbering"])
    THEN LET numbering == f["Numbering"]
             prefix == numbering.s
             bullet == numbering.s2
             chosen == IF prefix # None /\ prefix # <<>> THEN prefix
                       ELSE bullet
         IN  Put(f, "line-prefix",
                 IF chosen = None THEN NoneVal ELSE StrVal(chosen))
    ELSE f

\* lines 166-182: docAttribs, the IA2Attributes of the document
DerivePageAndLine(f, in) ==
    IF in.focus # "document" THEN f
    ELSE LET f1 == IF "page-number" \in in.docAttribs
                   THEN Put(f, "page-number", StrVal(<<"2">>))
                   ELSE f
         IN  IF "line-number" \in in.docAttribs
             THEN Put(f1, "line-number", StrVal(<<"9">>))
             ELSE f1

\* lines 91-98: the attributes of the offset, those of the offset before when
\* there are none, copied into a new FormatField
InitialFormatFieldEmpty(in) == EmptyField

InitialFormatField(in) ==
    IF DOMAIN in.attribs.map = {} /\ in.offset > 0 /\ ~in.before.err
    THEN in.before.map
    ELSE in.attribs.map

FormatReturned(f, o) == [kind |-> "returned", field |-> f, offsets |-> o]
FormatRaised(e) == [kind |-> e, field |-> EmptyField, offsets |-> "none"]
FormatNotCalled ==
    [kind |-> "notCalled", field |-> EmptyField, offsets |-> "none"]

\* The offsets returned are those of the attribute run at the offset, or the
\* text info's own when the attributes cannot be read.
getFormatFieldAndOffsets(in) ==
    IF in.attribs.err THEN FormatReturned(EmptyField, "textInfoRange")
    ELSE
    LET f0 == InitialFormatField(in)
    IN  IF TextPositionRaises(f0) THEN FormatRaised("ValueError")
        ELSE
        LET f6 == DeriveUnderline(DeriveStrikethrough(DeriveItalic(
                    DeriveFontSize(DeriveFontName(DeriveTextPosition(f0))))))
        IN  IF BoldRaises(f6) THEN FormatRaised("ValueError")
            ELSE
            LET f10 == DeriveLink(DeriveBackgroundColor(DeriveColor(
                         DeriveBold(f6))), in)
            IN  IF LinePrefixRaises(f10, in)
                THEN FormatRaised("AttributeError")
                ELSE FormatReturned(
                        DerivePageAndLine(DeriveLinePrefix(f10, in), in),
                        "attributeRun")

\* The attribute names of the model: the ones the code reads, one it does
\* not, and two that are named like derived keys.
SourceKeys ==
    {"CharEscapement", "CharFontName", "CharHeight", "CharPosture",
     "CharStrikeout", "CharUnderline", "CharWeight", "CharColor",
     "CharBackColor", "Numbering"}
OtherKeys == {"CharKerning", "underline", "invalid-spelling"}
AttribKeys == SourceKeys \cup OtherKeys
NumericKeys == {"CharEscapement", "CharHeight", "CharWeight"}

Strs(set) == {StrVal(str) : str \in set}

AttribValues(k) ==
    CASE k = "CharEscapement" ->
            Strs({<<"-", "1">>, <<"0">>, <<"5">>, <<"x">>})
      [] k = "CharFontName" -> Strs({<<"A", "b">>})
      [] k = "CharHeight" -> Strs({<<"1", "2">>, <<"x">>})
      [] k = "CharPosture" -> Strs({<<"2">>, <<"0">>})
      [] k = "CharStrikeout" -> Strs({<<"1">>, <<"0">>})
      [] k = "CharUnderline" -> Strs({<<"1", "0">>, <<"1">>, <<"0">>})
      [] k = "CharWeight" ->
            Strs({<<"1", "5", "0">>, <<"1", "0", "0">>, <<"9", "0">>,
                  <<"x">>})
      [] k = "CharColor" -> Strs({<<"r", "g", "b">>, <<>>})
      [] k = "CharBackColor" -> Strs({<<"r", "g", "b">>, <<>>})
      [] k = "Numbering" ->
            {DictVal(<<"1", ".">>, <<"*">>, TRUE),
             DictVal(None, <<"*">>, FALSE),
             DictVal(<<>>, None, TRUE),
             StrVal(<<"x">>)}
      [] OTHER -> Strs({<<"x">>})

\* the mappings with the attribute names keys
RECURSIVE MapsOver(_)
MapsOver(keys) ==
    IF keys = {} THEN {EmptyField}
    ELSE LET k == CHOOSE x \in keys : TRUE
         IN  {Put(m, k, v) : m \in MapsOver(keys \ {k}), v \in AttribValues(k)}

AttribMaps ==
    UNION {MapsOver(keys) :
              keys \in {K \in SUBSET AttribKeys : Cardinality(K) <= MaxAttribs}}

NumChars == DecimalDigits \cup {"-", ".", "x"}

Attribs(m) == [err |-> FALSE, map |-> m]
AttribsCOMError == [err |-> TRUE, map |-> EmptyField]

FocusStates ==
    {[focus |-> "noFocus", docAttribs |-> {}],
     [focus |-> "noTreeInterceptor", docAttribs |-> {}]}
        \cup {[focus |-> "document", docAttribs |-> d] :
                d \in SUBSET {"page-number", "line-number"}}

FormatInput(attribs, offset, before, hyperlink, fs) ==
    [attribs |-> attribs, offset |-> offset, before |-> before,
     hyperlink |-> hyperlink, focus |-> fs.focus,
     docAttribs |-> fs.docAttribs]

QuietFocus == [focus |-> "noFocus", docAttribs |-> {}]

\* attributes at the offset, in every context
ReadsAttributes(in) ==
    \E m \in AttribMaps, o \in {0, 1}, h \in {"COMError", "none", "link"},
       fs \in FocusStates :
        in = FormatInput(Attribs(m), o, Attribs(EmptyField), h, fs)

\* none at the offset: those of the offset before, when they can be read
ReadsAttributesBefore(in) ==
    \/ in = FormatInput(Attribs(EmptyField), 1, AttribsCOMError, "none",
                        QuietFocus)
    \/ \E m \in AttribMaps :
          in = FormatInput(Attribs(EmptyField), 1, Attribs(m), "none",
                           QuietFocus)

\* the attributes cannot be read
ReadsNoAttributes(in) ==
    \E o \in {0, 1} :
        in = FormatInput(AttribsCOMError, o, Attribs(EmptyField), "none",
                         QuietFocus)

\* one numeric attribute, of every value
ReadsNumericAttribute(in) ==
    \E key \in NumericKeys, str \in StringsOver(NumChars, MaxNumLen) :
        in = FormatInput(Attribs([k \in {key} |-> StrVal(str)]), 1,
                         Attribs(EmptyField), "none", QuietFocus)

CallGetFormatFieldAndOffsets ==
    /\ formatResult = FormatNotCalled
    /\ formatResult' = getFormatFieldAndOffsets(formatInput)
    /\ UNCHANGED <<coordVars, cellVars, formatInput, tableVars>>

(***************************************************************************)
(* SymphonyTable and SymphonyTableCell: the selection announcement.        *)
(*                                                                         *)
(* One handler runs at a time (NVDA handles events on its main thread).    *)
(* The handlers of the base classes, which every handler ends with, and    *)
(* the print calls are outside the model.                                  *)
(***************************************************************************)
CellNames == {"A1", "B2", "C3"}

\* what IAccessibleTable2::selectedCells can report: distinct cells, in order
Selections ==
    {sel \in UNION {[1..n -> CellNames] : n \in 0..MaxSelected} :
        \A i, j \in 1..Len(sel) : i # j => sel[i] # sel[j]}

\* lines 269-280: (first_cell_name, last_cell_name)
current_selection == <<selectedCells[1], selectedCells[Len(selectedCells)]>>

\* line 284, were the comparison with the last selection left out
SelectionChangedAlways == TRUE
SelectionChanged == current_selection # last_selection

\* The user changes what is selected in the table.
UserSelects ==
    \E sel \in Selections :
        /\ sel # selectedCells
        /\ selectedCells' = sel
        /\ UNCHANGED <<last_selection, hasTable2, spoken, lastEvent,
                       resetPending, resetSinceSpoken>>
        /\ UNCHANGED otherVars

\* lines 254-287.  comOk: no COM call of the method raises COMError;
\* nSelectedCells is read as the count selectedCells gave (line 264).
announce_selected_cells(comOk) ==
    IF ~hasTable2 \/ ~comOk
    THEN UNCHANGED <<last_selection, spoken, resetPending, resetSinceSpoken>>
    ELSE IF Len(selectedCells) > 1
    THEN /\ resetPending' = FALSE
         /\ IF SelectionChanged
            THEN /\ Len(spoken) < MaxSpoken
                 /\ spoken' = Append(spoken, current_selection)
                 /\ last_selection' = current_selection
                 /\ resetSinceSpoken' = FALSE
            ELSE UNCHANGED <<last_selection, spoken, resetSinceSpoken>>
    ELSE UNCHANGED <<last_selection, spoken, resetPending, resetSinceSpoken>>

\* lines 215-220, were the reset left out
event_selectionKeeps ==
    /\ lastEvent' = "selection"
    /\ resetPending' = TRUE
    /\ resetSinceSpoken' = TRUE
    /\ UNCHANGED <<last_selection, selectedCells, hasTable2, spoken>>
    /\ UNCHANGED otherVars

\* lines 215-220
event_selection ==
    /\ last_selection' = <<>>
    /\ lastEvent' = "selection"
    /\ resetPending' = TRUE
    /\ resetSinceSpoken' = TRUE
    /\ UNCHANGED <<selectedCells, hasTable2, spoken>>
    /\ UNCHANGED otherVars

\* lines 222-226.  knowsTable: the cell has a table that is a SymphonyTable.
event_selectionRemove ==
    \E knowsTable \in BOOLEAN, comOk \in BOOLEAN :
        /\ lastEvent' = "selectionRemove"
        /\ IF knowsTable THEN announce_selected_cells(comOk)
           ELSE UNCHANGED <<last_selection, spoken, resetPending,
                            resetSinceSpoken>>
        /\ UNCHANGED <<selectedCells, hasTable2>>
        /\ UNCHANGED otherVars

\* lines 228-232
event_selectionAdd ==
    \E knowsTable \in BOOLEAN, comOk \in BOOLEAN :
        /\ lastEvent' = "selectionAdd"
        /\ IF knowsTable THEN announce_selected_cells(comOk)
           ELSE UNCHANGED <<last_selection, spoken, resetPending,
                            resetSinceSpoken>>
        /\ UNCHANGED <<selectedCells, hasTable2>>
        /\ UNCHANGED otherVars

\* lines 289-292
event_selectionWithIn ==
    \E comOk \in BOOLEAN :
        /\ lastEvent' = "selectionWithIn"
        /\ announce_selected_cells(comOk)
        /\ UNCHANGED <<selectedCells, hasTable2>>
        /\ UNCHANGED otherVars

(***************************************************************************)
(* Specifications.                                                         *)
(***************************************************************************)
CoordIdle == coordString = None /\ coordResult = NotCalled
CellIdle == name = None /\ rowNumber = NotQueried /\ columnNumber = NotQueried
FormatIdle ==
    /\ formatInput = FormatInput(AttribsCOMError, 0, AttribsCOMError, "none",
                                 QuietFocus)
    /\ formatResult = FormatNotCalled
TableIdle ==
    /\ last_selection = <<>>
    /\ selectedCells = <<>>
    /\ hasTable2 = FALSE
    /\ spoken = <<>>
    /\ lastEvent = "none"
    /\ resetPending = FALSE
    /\ resetSinceSpoken = FALSE

\* gridCoordStringToNumbers applied to every coordinate string of the bound
InitCoord ==
    /\ coordString \in CoordStrings
    /\ coordResult = NotCalled
    /\ CellIdle
    /\ FormatIdle
    /\ TableIdle

NextCoord == CallGridCoordStringToNumbers

SpecCoord == InitCoord /\ [][NextCoord]_vars

\* a JAB table cell of any name, queried for its row and column number
InitCell ==
    /\ name \in JabNames
    /\ rowNumber = NotQueried
    /\ columnNumber = NotQueried
    /\ CoordIdle
    /\ FormatIdle
    /\ TableIdle

NextCell == QueryRowNumber \/ QueryColumnNumber

SpecCell == InitCell /\ [][NextCell]_vars

\* _getFormatFieldAndOffsets applied to every input of the bounds
InitFormat ==
    /\ \/ ReadsAttributes(formatInput)
       \/ ReadsAttributesBefore(formatInput)
       \/ ReadsNoAttributes(formatInput)
       \/ ReadsNumericAttribute(formatInput)
    /\ formatResult = FormatNotCalled
    /\ CoordIdle
    /\ CellIdle
    /\ TableIdle

NextFormat == CallGetFormatFieldAndOffsets

SpecFormat == InitFormat /\ [][NextFormat]_vars

\* a table, with or without IAccessibleTable2, and the selection events
InitTable ==
    /\ last_selection = <<>>
    /\ selectedCells = <<>>
    /\ hasTable2 \in BOOLEAN
    /\ spoken = <<>>
    /\ lastEvent = "none"
    /\ resetPending = FALSE
    /\ resetSinceSpoken = FALSE
    /\ CoordIdle
    /\ CellIdle
    /\ FormatIdle

NextTable ==
    \/ UserSelects
    \/ event_selection
    \/ event_selectionRemove
    \/ event_selectionAdd
    \/ event_selectionWithIn

SpecTable == InitTable /\ [][NextTable]_vars

(***************************************************************************)
(* Claims about gridCoordStringToNumbers.                                  *)
(***************************************************************************)
Called == coordResult # NotCalled

IsLetter(ch) == ch \in UpperLetters \cup LowerLetters

\* one or more letters A-Z of either case, then one or more decimal digits
LettersThenDigits(s, k) ==
    /\ k \in 1..(Len(s) - 1)
    /\ \A i \in 1..k : IsLetter(s[i])
    /\ \A i \in (k + 1)..Len(s) : s[i] \in DecimalDigits

IsLettersThenDigits(s) ==
    s # None /\ \E k \in 1..Len(s) : LettersThenDigits(s, k)

\* A=1 .. Z=26, case-insensitively
LetterRank(ch) ==
    CASE ch \in {"A", "a"} -> 1 [] ch \in {"B", "b"} -> 2
      [] ch \in {"Z", "z"} -> 26

DigitRank(ch) ==
    CASE ch = "0" -> 0 [] ch = "1" -> 1 [] ch = "2" -> 2 [] ch = "5" -> 5
      [] ch = "9" -> 9

\* the bijective base-26 value of a letter string, left to right
RECURSIVE Bijective26(_)
Bijective26(s) ==
    IF Len(s) = 0 THEN 0
    ELSE 26 * Bijective26(SubSeq(s, 1, Len(s) - 1)) + LetterRank(s[Len(s)])

\* the base-10 value of a digit string, left to right
RECURSIVE Base10(_)
Base10(s) ==
    IF Len(s) = 0 THEN 0
    ELSE 10 * Base10(SubSeq(s, 1, Len(s) - 1)) + DigitRank(s[Len(s)])

SwapCaseChar(ch) ==
    CASE ch = "A" -> "a" [] ch = "B" -> "b" [] ch = "Z" -> "z"
      [] ch = "a" -> "A" [] ch = "b" -> "B" [] ch = "z" -> "Z"
      [] OTHER -> ch

SwapCase(s) == [i \in 1..Len(s) |-> SwapCaseChar(s[i])]

\* C1: for a label of one or more letters A-Z (either case) followed by one
\* or more decimal digits, gridCoordStringToNumbers returns (row, column)
\* with row the base-10 value of the digits (leading zeros allowed) and
\* column the bijective base-26 value of the letters (A=1, Z=26, AA=27),
\* and the label with the case of every letter swapped decodes to the same
\* pair.
C1_DecodesLettersThenDigits ==
    (Called /\ IsLettersThenDigits(coordString)) =>
        LET k == CHOOSE j \in 1..Len(coordString) :
                        LettersThenDigits(coordString, j)
            letters == SubSeq(coordString, 1, k)
            digits == SubSeq(coordString, k + 1, Len(coordString))
        IN  /\ coordResult = Returned(Base10(digits), Bijective26(letters))
            /\ gridCoordStringToNumbers(SwapCase(coordString)) = coordResult
            /\ coordString = <<"A", "1">> => coordResult = Returned(1, 1)
            /\ coordString = <<"Z", "1">> => coordResult = Returned(1, 26)
            /\ coordString = <<"A", "A", "1">> => coordResult = Returned(1, 27)
            /\ coordString = <<"B", "1", "2">> => coordResult = Returned(12, 2)

\* a lower-case two-letter label with a leading zero has been decoded
C1_Witness ==
    /\ coordString = <<"a", "b", "0">> \/ coordString = <<"b", "0", "2">>
    /\ coordResult \in {Returned(0, 28), Returned(2, 2)}

\* the four input constraints of the decoder ("digit" as str.isdigit)
ViolatesInputConstraint(s) ==
    \/ s = None
    \/ Len(s) = 0
    \/ \E i \in 1..Len(s) : s[i] = " "
    \/ IsDigit(s[1])
    \/ ~IsDigit(s[Len(s)])

\* C2: gridCoordStringToNumbers raises ValueError for every label that is
\* empty, contains a space, starts with a digit or does not end with a
\* digit, and returns a coordinate pair for every other label.
C2_RejectsExactlyTheInvalid ==
    Called =>
        IF ViolatesInputConstraint(coordString)
        THEN coordResult = Raised("ValueError")
        ELSE coordResult.kind = "returned"

\* C3: every pair gridCoordStringToNumbers returns has row >= 1 and
\* column >= 1.
C3_ReturnedPairIsPositive ==
    coordResult.kind = "returned" =>
        coordResult.row >= 1 /\ coordResult.col >= 1

(***************************************************************************)
(* Claims about JAB_OOTableCell.                                           *)
(***************************************************************************)
\* what C8 says a query returns: 0 for a missing or ill-shaped coordinate
\* text, the decoded number otherwise
ExpectedNumber(n, field) ==
    LET t == get_cellCoordsText(n)
    IN  IF ViolatesInputConstraint(t) THEN QueryReturned(0)
        ELSE QueryReturned(gridCoordStringToNumbers(t)[field])

\* C8: the row-number and column-number queries never propagate an error:
\* they return 0 when the coordinate text is None or violates the shape
\* constraints, and the decoded row and column otherwise.
C8_QueriesNeverRaise ==
    /\ rowNumber # NotQueried => rowNumber = ExpectedNumber(name, "row")
    /\ columnNumber # NotQueried =>
            columnNumber = ExpectedNumber(name, "col")

(***************************************************************************)
(* Claims about SymphonyTextInfo._getFormatFieldAndOffsets.                *)
(***************************************************************************)
FormatCalled == formatResult # FormatNotCalled
FormatField == formatResult.field

\* the raw attribute mapping the call works on
RawAttribs ==
    IF formatInput.attribs.err THEN EmptyField
    ELSE IF DOMAIN formatInput.attribs.map # {} THEN formatInput.attribs.map
    ELSE IF formatInput.offset = 0 \/ formatInput.before.err THEN EmptyField
    ELSE formatInput.before.map

DerivedKeys ==
    {"text-position", "font-name", "font-size", "italic", "strikethrough",
     "underline", "invalid-spelling", "bold", "color", "background-color",
     "link", "line-prefix", "page-number", "line-number"}

DerivedOf(k) ==
    CASE k = "CharEscapement" -> "text-position"
      [] k = "CharHeight" -> "font-size"
      [] k = "CharWeight" -> "bold"

\* neither an integer nor a decimal number
NonNumeric(v) == ~PyFloatAccepts(v.s)

\* the same call, had the raw attributes not held attribute k
WithoutAttrib(in, k) ==
    [in EXCEPT !.attribs = Attribs(Pop(RawAttribs, k)),
               !.before = Attribs(Pop(RawAttribs, k))]

\* C4: a non-numeric CharWeight, CharHeight or CharEscapement makes the call
\* skip that one derivation only: the call returns, the key derived from the
\* attribute (bold, font-size, text-position) is omitted and every other
\* derived key is as it would be without the attribute.
C4_MalformedNumberSkipsOneDerivation ==
    FormatCalled =>
        \A k \in NumericKeys \cap DOMAIN RawAttribs :
            NonNumeric(RawAttribs[k]) =>
                LET ref == getFormatFieldAndOffsets(
                               WithoutAttrib(formatInput, k)).field
                IN  /\ formatResult.kind = "returned"
                    /\ DerivedOf(k) \notin DOMAIN FormatField
                    /\ \A d \in DerivedKeys \ {DerivedOf(k)} :
                          /\ d \in DOMAIN FormatField <=> d \in DOMAIN ref
                          /\ d \in DOMAIN ref => FormatField[d] = ref[d]

\* the value of a decimal numeral exceeds 100: no minus sign, and an integer
\* part above 100, or of 100 with a fraction above 0
Exceeds100(str) ==
    LET body == Unsigned(str)
        dot == IF \E i \in 1..Len(body) : body[i] = "."
               THEN CHOOSE i \in 1..Len(body) : body[i] = "."
               ELSE Len(body) + 1
        whole == Base10(SubSeq(body, 1, dot - 1))
        fraction == Base10(SubSeq(body, dot + 1, Len(body)))
    IN  ~IsMinus(str) /\ (whole > 100 \/ (whole = 100 /\ fraction > 0))

HasNumericWeight ==
    /\ formatResult.kind = "returned"
    /\ "CharWeight" \in DOMAIN RawAttribs
    /\ ~NonNumeric(RawAttribs["CharWeight"])

\* C5 as stated: for a numeric CharWeight the format field has bold = true
\* when the weight exceeds 100 and no bold key when it is 100 or less.
C5_BoldOmittedUpTo100 ==
    HasNumericWeight =>
        IF Exceeds100(RawAttribs["CharWeight"].s)
        THEN /\ "bold" \in DOMAIN FormatField
             /\ FormatField["bold"] = BoolVal(TRUE)
        ELSE "bold" \notin DOMAIN FormatField

\* C5 as amended: for a numeric CharWeight the format field has a bold key,
\* true when the weight exceeds 100 and false when it is 100 or less.
C5_BoldIsWeightAbove100 ==
    HasNumericWeight =>
        /\ "bold" \in DOMAIN FormatField
        /\ FormatField["bold"] =
              BoolVal(Exceeds100(RawAttribs["CharWeight"].s))

\* a weight of exactly 100 has given bold = false
C5_Witness ==
    /\ HasNumericWeight
    /\ RawAttribs["CharWeight"] = StrVal(<<"1", "0", "0">>)
    /\ FormatField["bold"] = BoolVal(FALSE)

WaveUnderline == StrVal(<<"1", "0">>)
NoUnderline == StrVal(<<"0">>)

UnderlineDerivedExclusively ==
    /\ ~({"underline", "invalid-spelling"} \subseteq DOMAIN FormatField)
    /\ "CharUnderline" \in DOMAIN RawAttribs =>
          IF RawAttribs["CharUnderline"] = WaveUnderline
          THEN /\ "invalid-spelling" \in DOMAIN FormatField
               /\ FormatField["invalid-spelling"] = BoolVal(TRUE)
               /\ "underline" \notin DOMAIN FormatField
          ELSE /\ "underline" \in DOMAIN FormatField
               /\ FormatField["underline"] =
                     BoolVal(RawAttribs["CharUnderline"] # NoUnderline)
               /\ "invalid-spelling" \notin DOMAIN FormatField

\* C6 as stated: for every raw attribute mapping the format field never has
\* both an underline and an invalid-spelling key: an underline code of '10'
\* gives invalid-spelling = true and no underline key, any other code gives
\* underline = (code # '0') and no invalid-spelling key.
C6_UnderlineOrSpellingForAnyMapping ==
    formatResult.kind = "returned" => UnderlineDerivedExclusively

\* C6 as amended: the same, for every raw attribute mapping that has no
\* attribute named underline or invalid-spelling of its own.
C6_UnderlineOrSpelling ==
    (/\ formatResult.kind = "returned"
     /\ "underline" \notin DOMAIN RawAttribs
     /\ "invalid-spelling" \notin DOMAIN RawAttribs)
        => UnderlineDerivedExclusively

\* the wave underline has been turned into invalid-spelling alone
C6_Witness ==
    /\ formatResult.kind = "returned"
    /\ "CharUnderline" \in DOMAIN RawAttribs
    /\ RawAttribs["CharUnderline"] = WaveUnderline
    /\ "invalid-spelling" \in DOMAIN FormatField
    /\ "underline" \notin DOMAIN FormatField

\* C7 as stated: every raw attribute key that is no recognised source key
\* (and no key of the derived vocabulary) is absent from the format field.
C7_UnrecognisedKeysDropped ==
    formatResult.kind = "returned" =>
        \A k \in DOMAIN RawAttribs :
            k \notin SourceKeys \cup DerivedKeys =>
                k \notin DOMAIN FormatField

\* C7 as amended: the format field holds the derived keys and every raw
\* attribute key, recognised or not, with its raw value where no derived key
\* of the same name replaced it; only CharColor and CharBackColor are
\* removed.
C7_RawKeysCopiedThrough ==
    formatResult.kind = "returned" =>
        /\ DOMAIN FormatField \subseteq DOMAIN RawAttribs \cup DerivedKeys
        /\ \A k \in DOMAIN RawAttribs :
              IF k \in {"CharColor", "CharBackColor"}
              THEN k \notin DOMAIN FormatField
              ELSE /\ k \in DOMAIN FormatField
                   /\ k \notin DerivedKeys => FormatField[k] = RawAttribs[k]

\* an unrecognised attribute has been copied and CharColor removed
C7_Witness ==
    /\ formatResult.kind = "returned"
    /\ DOMAIN RawAttribs = {"CharKerning", "CharColor"}
    /\ "CharKerning" \in DOMAIN FormatField
    /\ "CharColor" \notin DOMAIN FormatField

(***************************************************************************)
(* Claims about the selection announcement.                                *)
(***************************************************************************)
AnnounceEvents == {"selectionAdd", "selectionRemove", "selectionWithIn"}

Speaks == spoken' # spoken

\* C9: over any sequence of events a message is spoken only when more than
\* one cell is selected and the (first, last) pair differs from
\* last_selection, and last_selection is the spoken pair afterwards; the
\* same pair is not spoken twice in a row unless event_selection ran in
\* between; a selectionAdd, selectionRemove or selectionWithIn event that
\* finds at most one selected cell speaks nothing and leaves last_selection
\* as it is.
C9_SpeaksOnlyChangedSelection ==
    [][/\ Speaks =>
            /\ Len(selectedCells) > 1
            /\ current_selection # last_selection
            /\ spoken' = Append(spoken, current_selection)
            /\ last_selection' = current_selection
       /\ (Speaks /\ Len(spoken) > 0
             /\ spoken'[Len(spoken')] = spoken[Len(spoken)])
            => resetSinceSpoken
       /\ (lastEvent' \in AnnounceEvents /\ Len(selectedCells) <= 1)
            => (spoken' = spoken /\ last_selection' = last_selection)
      ]_vars

\* two different ranges have been spoken, the second is remembered
C9_Witness ==
    /\ Len(spoken) = 2
    /\ spoken[1] # spoken[2]
    /\ last_selection = spoken[2]
    /\ lastEvent \in AnnounceEvents
    /\ ~resetSinceSpoken

\* C10: event_selection sets last_selection to the empty tuple and speaks
\* nothing, and the first announcement after it that finds more than one
\* selected cell speaks its range, whatever was spoken before.
C10_ResetThenRangeIsSpoken ==
    [][/\ lastEvent' = "selection" =>
            (last_selection' = <<>> /\ spoken' = spoken)
       /\ (resetPending /\ ~resetPending') =>
            /\ Len(selectedCells) > 1
            /\ spoken' = Append(spoken, current_selection)
      ]_vars

\* the range spoken before the reset has been spoken again after it
C10_Witness ==
    /\ Len(spoken) = 2
    /\ spoken[1] = spoken[2]
    /\ ~resetPending
    /\ last_selection = spoken[2]

====
